---------------------------- MODULE Spec2Model ----------------------------
(***************************************************************************)
(* The game-state engine of snake-neon: the zustand store of               *)
(* src/store/gameStore.ts (snake, food, direction, score, level, lives,    *)
(* high score, the menu/playing/paused/gameOver machine, the settings and  *)
(* leaderboard mutators and their localStorage copies).                    *)
(*                                                                         *)
(* The source plays on a 20 x 20 grid with the snake starting at (10,10)   *)
(* and the first food at (15,15).  The model keeps the code of every       *)
(* action and is checked on a reduced grid: GRID_SIZE is the side of the   *)
(* grid, the start cell is the centre cell (10 = 20 / 2) and the           *)
(* construction-time food is at three quarters of the side (15 = 3*20/4).  *)
(* Math.random is a nondeterministic choice.                               *)
(***************************************************************************)
EXTENDS Integers, Sequences, FiniteSets, TLC

VARIABLES
    gameState,        \* 'menu' | 'playing' | 'paused' | 'gameOver'
    gameMode,         \* 'classic' | 'survival' | 'multiplayer'
    snake,            \* Position[], head first
    food,             \* Food[]
    powerUps,         \* PowerUp[]
    activePowerUps,   \* ActivePowerUp[]
    direction,        \* 'up' | 'down' | 'left' | 'right'
    score,
    level,
    lives,
    highScore,
    showSettings,
    showLeaderboard,
    leaderboard,      \* LeaderboardEntry[]
    settings,
    localStorage      \* the three keys the store reads and writes

vars == <<gameState, gameMode, snake, food, powerUps, activePowerUps, direction,
          score, level, lives, highScore, showSettings, showLeaderboard,
          leaderboard, settings, localStorage>>

engineVars == <<gameState, gameMode, snake, food, powerUps, activePowerUps,
                direction, score, level, lives>>

uiVars == <<showSettings, showLeaderboard>>

persistVars == <<leaderboard, settings, localStorage>>

----------------------------------------------------------------------------
(* Bounds of the model *)

\* side of the grid (20 in the source)
GRID_SIZE == 3

\* no tick is taken that would raise the score above this
MaxScore == 20

\* the same, in the specification of the whole store
StoreMaxScore == 10

\* addToLeaderboard is not called on a leaderboard this long
MaxEntries == 1

\* the cap on the score in the specification of one long game
LongMaxScore == 100

\* the longest leaderboard found in localStorage when the store is created
MaxStored == 11

\* the cap on the score in the specification of the three game modes
ModeMaxScore == 10

\* the cap on the score in the specification of one short game
ShortMaxScore == 50

\* the cap on the score in the specification of the keyboard and the buttons
UiMaxScore == 10

(* Program constants *)

\* generateFood gives up after this many candidate draws
MaxAttempts == 100

\* points for a normal and for a power food item
NormalPoints == 10

PowerPoints == 20

\* a level every 100 points
LevelStep == 100

\* the leaderboard keeps the top 10
TopN == 10

\* lives of the store as created and as reset
InitialLives == 3

\* lives of a survival game, and of every other game
SurvivalLives == 3

OtherLives == 1

\* defaultSettings.gameSpeed
DefaultGameSpeed == 5

----------------------------------------------------------------------------
(* Types *)

GameStates == {"menu", "playing", "paused", "gameOver"}

GameModes == {"classic", "survival", "multiplayer"}

Directions == {"up", "down", "left", "right"}

FoodTypes == {"normal", "power"}

Position(px, pz) == [x |-> px, z |-> pz]

Coords == 0 .. (GRID_SIZE - 1)

\* the cells Math.floor(Math.random() * GRID_SIZE) can draw
Cells == {Position(px, pz) : px \in Coords, pz \in Coords}

\* Array.prototype.some over the snake: a segment on the cell of p
OnSnake(s, p) == \E i \in 1 .. Len(s) : s[i].x = p.x /\ s[i].z = p.z

\* const initialSnake = [{ x: 10, z: 10 }]
initialSnake == <<Position(GRID_SIZE \div 2, GRID_SIZE \div 2)>>

\* food: [{ x: 15, z: 15, type: 'normal' }]
initialFood ==
    <<[x |-> (3 * GRID_SIZE) \div 4, z |-> (3 * GRID_SIZE) \div 4, type |-> "normal"]>>

----------------------------------------------------------------------------
(* generateFood *)

\* Math.max
max(a, b) == IF a >= b THEN a ELSE b

\* the loop test of the variant without the attempt limit
loopAgainNoLimit(s, position, attempts) == OnSnake(s, position)

\* while (snake.some(...) && attempts < 100), read after attempts++
loopAgain(s, position, attempts) == OnSnake(s, position) /\ attempts < MaxAttempts

\* The state of the runs of the do-while loop after some iterations: the draws
\* made, whether some run is still in the loop, the positions such runs hold,
\* and the positions returned by the runs that have left the loop.
loopStart == [attempts |-> 0, running |-> TRUE, looping |-> {}, returned |-> {}]

\* one more iteration: position = a random cell, attempts++, the loop test
loopStep(s, runs) ==
    IF ~runs.running THEN runs
    ELSE LET attempts == runs.attempts + 1
             again    == {position \in Cells : loopAgain(s, position, attempts)}
         IN  [attempts |-> attempts,
              running  |-> again # {},
              looping  |-> again,
              returned |-> runs.returned \cup (Cells \ again)]

\* n more iterations, the first half of them and then the rest; the state
\* after the first half is worked out in full before the rest is run
RECURSIVE loopSteps(_, _, _)
loopSteps(s, runs, n) ==
    IF n = 0 THEN runs
    ELSE IF n = 1 THEN loopStep(s, runs)
    ELSE LET half == loopSteps(s, runs, n \div 2)
         IN  IF half = half THEN loopSteps(s, half, n - (n \div 2)) ELSE half

\* the loop of generateFood(s) after n iterations
loopAfter(s, n) == loopSteps(s, loopStart, n)

\* The cells the do-while loop can return.  The loop returns its k-th draw
\* (k = 1, 2, ...): the k - 1 draws before it were on the snake with the
\* attempt counter still below MaxAttempts, and the k-th draw is off the
\* snake or brings the counter to MaxAttempts.
generateFoodCells(s) ==
    LET hits == {p \in Cells : OnSnake(s, p)}
    IN  {p \in Cells :
            \/ p \notin hits
            \/ \E k \in 1 .. max(1, MaxAttempts) :
                   /\ k = 1 \/ hits # {}
                   /\ k >= MaxAttempts}

\* every Food generateFood(snake) can return
generateFood(s) ==
    {[x |-> p.x, z |-> p.z, type |-> t] : p \in generateFoodCells(s), t \in FoodTypes}

\* generateFood(initialSnake), as startGame and resetGame call it
generateInitialFood == generateFood(initialSnake)

----------------------------------------------------------------------------
(* localStorage values *)

\* An item of localStorage is the set of the strings stored under its key: empty
\* (getItem returns null) or one string.
Null == {}

\* localStorage.setItem(key, str)
setItem(store, key, str) == [store EXCEPT ![key] = {str}]

Digit == [i \in 0 .. 9 |-> CASE i = 0 -> "0" [] i = 1 -> "1" [] i = 2 -> "2"
                             [] i = 3 -> "3" [] i = 4 -> "4" [] i = 5 -> "5"
                             [] i = 6 -> "6" [] i = 7 -> "7" [] i = 8 -> "8"
                             [] OTHER -> "9"]

\* Number.prototype.toString of an integer, as a sequence of characters
RECURSIVE toString(_)
toString(n) ==
    IF n < 0 THEN <<"-">> \o toString(0 - n)
    ELSE IF n < 10 THEN <<Digit[n]>>
    ELSE Append(toString(n \div 10), Digit[n % 10])

DigitValue(c) == CHOOSE i \in 0 .. 9 : Digit[i] = c

IsDigit(c) == \E i \in 0 .. 9 : Digit[i] = c

\* the value of the leading digits of str, read left to right
RECURSIVE parseDigits(_, _)
parseDigits(str, acc) ==
    IF str = <<>> \/ ~IsDigit(Head(str)) THEN acc
    ELSE parseDigits(Tail(str), 10 * acc + DigitValue(Head(str)))

\* parseInt of a string that starts with a digit or with a minus sign and a digit
parseInt(str) ==
    IF str # <<>> /\ Head(str) = "-" THEN 0 - parseDigits(Tail(str), 0)
    ELSE parseDigits(str, 0)

\* localStorage.getItem(key) || fallback
getItemOr(key, fallback) ==
    IF localStorage[key] = Null THEN fallback ELSE CHOOSE str \in localStorage[key] : TRUE

\* JSON.stringify of a value of the store
stringify(v) == [json |-> v]

\* JSON.parse
parse(str) == str.json

\* { ...settings, ...newSettings }: the keys of newSettings override
merge(base, over) == over @@ base

defaultSettings == [gameSpeed |-> DefaultGameSpeed, theme |-> "dark"]

----------------------------------------------------------------------------
(* Initial state of the store *)

Init ==
    /\ localStorage = [highscore |-> Null, leaderboard |-> Null, settings |-> Null]
    /\ gameState = "menu"
    /\ gameMode = "classic"
    /\ snake = <<Position(GRID_SIZE \div 2, GRID_SIZE \div 2)>>
    /\ food = initialFood
    /\ powerUps = <<>>
    /\ activePowerUps = <<>>
    /\ direction = "right"
    /\ score = 0
    /\ level = 1
    /\ lives = InitialLives
    /\ highScore = parseInt(getItemOr("highscore", <<"0">>))
    /\ showSettings = FALSE
    /\ showLeaderboard = FALSE
    /\ leaderboard = parse(getItemOr("leaderboard", stringify(<<>>)))
    /\ settings = merge(defaultSettings, parse(getItemOr("settings", stringify(<<>>))))

----------------------------------------------------------------------------
(* Actions of the store *)

\* startGame that leaves the panels as they are
startGameKeepsPanels(mode) ==
    \E newFood \in generateInitialFood :
        /\ gameState' = "playing"
        /\ gameMode' = mode
        /\ snake' = initialSnake
        /\ food' = <<newFood>>
        /\ powerUps' = <<>>
        /\ activePowerUps' = <<>>
        /\ direction' = "right"
        /\ score' = 0
        /\ level' = 1
        /\ lives' = (IF mode = "survival" THEN SurvivalLives ELSE OtherLives)
        /\ UNCHANGED <<highScore, uiVars, leaderboard, settings, localStorage>>

startGame(mode) ==
    \E newFood \in generateInitialFood :
        /\ gameState' = "playing"
        /\ gameMode' = mode
        /\ snake' = initialSnake
        /\ food' = <<newFood>>
        /\ powerUps' = <<>>
        /\ activePowerUps' = <<>>
        /\ direction' = "right"
        /\ score' = 0
        /\ level' = 1
        /\ lives' = (IF mode = "survival" THEN SurvivalLives ELSE OtherLives)
        /\ showSettings' = FALSE
        /\ showLeaderboard' = FALSE
        /\ UNCHANGED <<highScore, leaderboard, settings, localStorage>>

\* pauseGame whose second branch is a plain else
pauseGameElseResumes ==
    /\ gameState' = (IF gameState = "playing" THEN "paused" ELSE "playing")
    /\ UNCHANGED <<gameMode, snake, food, powerUps, activePowerUps, direction,
                   score, level, lives, highScore, uiVars, persistVars>>

\* pauseGame that turns the snake back to the right when it resumes
pauseGameResetsDirection ==
    /\ gameState' = (IF gameState = "playing" THEN "paused"
                     ELSE IF gameState = "paused" THEN "playing"
                     ELSE gameState)
    /\ direction' = (IF gameState = "paused" THEN "right" ELSE direction)
    /\ UNCHANGED <<gameMode, snake, food, powerUps, activePowerUps,
                   score, level, lives, highScore, uiVars, persistVars>>

pauseGame ==
    /\ gameState' = (IF gameState = "playing" THEN "paused"
                     ELSE IF gameState = "paused" THEN "playing"
                     ELSE gameState)
    /\ UNCHANGED <<gameMode, snake, food, powerUps, activePowerUps, direction,
                   score, level, lives, highScore, uiVars, persistVars>>

\* resetGame that keeps the score and the level
resetGameKeepsScore ==
    \E newFood \in generateInitialFood :
        /\ gameState' = "menu"
        /\ snake' = initialSnake
        /\ food' = <<newFood>>
        /\ powerUps' = <<>>
        /\ activePowerUps' = <<>>
        /\ direction' = "right"
        /\ lives' = InitialLives
        /\ UNCHANGED <<gameMode, score, level, highScore, uiVars, persistVars>>

resetGame ==
    \E newFood \in generateInitialFood :
        /\ gameState' = "menu"
        /\ snake' = initialSnake
        /\ food' = <<newFood>>
        /\ powerUps' = <<>>
        /\ activePowerUps' = <<>>
        /\ direction' = "right"
        /\ score' = 0
        /\ level' = 1
        /\ lives' = InitialLives
        /\ UNCHANGED <<gameMode, highScore, uiVars, persistVars>>

opposites == [up |-> "down", down |-> "up", left |-> "right", right |-> "left"]

\* the reversal test comparing the new direction itself with the stored one
isReversalSameDirection(s, d, currentDirection) ==
    Len(s) > 1 /\ d = currentDirection

\* the reversal test of moveSnake
isReversal(s, d, currentDirection) ==
    Len(s) > 1 /\ opposites[d] = currentDirection

\* moveSnake without the test of gameState
moveSnakeAnyState(d) ==
    /\ IF isReversal(snake, d, direction) THEN UNCHANGED direction
       ELSE direction' = d
    /\ UNCHANGED <<gameState, gameMode, snake, food, powerUps, activePowerUps,
                   score, level, lives, highScore, uiVars, persistVars>>

moveSnake(d) ==
    /\ IF gameState # "playing" THEN UNCHANGED direction
       ELSE IF isReversal(snake, d, direction) THEN UNCHANGED direction
       ELSE direction' = d
    /\ UNCHANGED <<gameState, gameMode, snake, food, powerUps, activePowerUps,
                   score, level, lives, highScore, uiVars, persistVars>>

\* the switch with the z axis upside down
newHeadOfFlipped(head, d) ==
    CASE d = "up"    -> Position(head.x, head.z + 1)
      [] d = "down"  -> Position(head.x, head.z - 1)
      [] d = "left"  -> Position(head.x - 1, head.z)
      [] d = "right" -> Position(head.x + 1, head.z)

\* the switch on direction: the new head cell
newHeadOf(head, d) ==
    CASE d = "up"    -> Position(head.x, head.z - 1)
      [] d = "down"  -> Position(head.x, head.z + 1)
      [] d = "left"  -> Position(head.x - 1, head.z)
      [] d = "right" -> Position(head.x + 1, head.z)

\* the wall test with > for >=
wallCollisionOffByOne(p) ==
    p.x < 0 \/ p.x > GRID_SIZE \/ p.z < 0 \/ p.z > GRID_SIZE

\* the wall test without its two lower bounds
wallCollisionUpperOnly(p) ==
    p.x >= GRID_SIZE \/ p.z >= GRID_SIZE

\* no wall test at all
wallCollisionNever(p) == FALSE

wallCollision(p) ==
    p.x < 0 \/ p.x >= GRID_SIZE \/ p.z < 0 \/ p.z >= GRID_SIZE

\* the self test against the segments that stay, the tail left out
selfCollisionSkipsTail(s, p) == OnSnake(SubSeq(s, 1, Len(s) - 1), p)

selfCollision(s, p) == OnSnake(s, p)

\* food.findIndex(f => f.x === newHead.x && f.z === newHead.z), 0-based
findIndex(fs, p) ==
    IF \E i \in 1 .. Len(fs) : fs[i].x = p.x /\ fs[i].z = p.z
    THEN (CHOOSE i \in 1 .. Len(fs) :
              /\ fs[i].x = p.x /\ fs[i].z = p.z
              /\ \A j \in 1 .. (i - 1) : ~(fs[j].x = p.x /\ fs[j].z = p.z)) - 1
    ELSE -1

\* 30 points for a power food
pointsGainedThirty(eatenFood) ==
    IF eatenFood.type = "power" THEN 30 ELSE NormalPoints

pointsGained(eatenFood) ==
    IF eatenFood.type = "power" THEN PowerPoints ELSE NormalPoints

\* a level every 50 points
levelOfEveryFifty(newScore) == (newScore \div 50) + 1

levelOf(newScore) == (newScore \div LevelStep) + 1

\* the tail left in place
popNothing(s) == s

\* the segment behind the head removed in place of the tail
popSecond(s) == <<s[1]>> \o SubSeq(s, 3, Len(s))

\* newSnake.pop()
pop(s) == SubSeq(s, 1, Len(s) - 1)

\* a collision branch that stores the score as the high score
endGameOverwrite ==
    /\ localStorage' = setItem(localStorage, "highscore", toString(score))
    /\ gameState' = "gameOver"
    /\ highScore' = score
    /\ UNCHANGED <<gameMode, snake, food, powerUps, activePowerUps, direction,
                   score, level, lives, uiVars, leaderboard, settings>>

\* a collision branch that only sets gameState
endGameNoRecord ==
    /\ gameState' = "gameOver"
    /\ UNCHANGED <<gameMode, snake, food, powerUps, activePowerUps, direction,
                   score, level, lives, highScore, uiVars, persistVars>>

\* a collision branch that also clears the score
endGameResetsScore ==
    LET newHighScore == max(highScore, score)
    IN  /\ localStorage' =
              (IF newHighScore > highScore
               THEN setItem(localStorage, "highscore", toString(newHighScore))
               ELSE localStorage)
        /\ gameState' = "gameOver"
        /\ highScore' = newHighScore
        /\ score' = 0
        /\ UNCHANGED <<gameMode, snake, food, powerUps, activePowerUps, direction,
                       level, lives, uiVars, leaderboard, settings>>

\* a collision branch that spends a life of a survival game and plays on
endGameLosesLife ==
    IF gameMode = "survival" /\ lives > 1
    THEN /\ lives' = lives - 1
         /\ UNCHANGED <<gameState, gameMode, snake, food, powerUps, activePowerUps,
                        direction, score, level, highScore, uiVars, persistVars>>
    ELSE LET newHighScore == max(highScore, score)
         IN  /\ localStorage' =
                   (IF newHighScore > highScore
                    THEN setItem(localStorage, "highscore", toString(newHighScore))
                    ELSE localStorage)
             /\ gameState' = "gameOver"
             /\ highScore' = newHighScore
             /\ UNCHANGED <<gameMode, snake, food, powerUps, activePowerUps, direction,
                            score, level, lives, uiVars, leaderboard, settings>>

\* a collision branch that keeps the new high score in memory only
endGameNoPersist ==
    /\ gameState' = "gameOver"
    /\ highScore' = max(highScore, score)
    /\ UNCHANGED <<gameMode, snake, food, powerUps, activePowerUps, direction,
                   score, level, lives, uiVars, persistVars>>

\* the high-score update of both collision branches
endGame ==
    LET newHighScore == max(highScore, score)
    IN  /\ localStorage' =
              (IF newHighScore > highScore
               THEN setItem(localStorage, "highscore", toString(newHighScore))
               ELSE localStorage)
        /\ gameState' = "gameOver"
        /\ highScore' = newHighScore
        /\ UNCHANGED <<gameMode, snake, food, powerUps, activePowerUps, direction,
                       score, level, lives, uiVars, leaderboard, settings>>

updateGame ==
    IF gameState # "playing"
    THEN UNCHANGED <<engineVars, highScore, uiVars, persistVars>>
    ELSE
      LET head    == snake[1]
          newHead == newHeadOf(head, direction)
      IN
        IF wallCollision(newHead) THEN endGame
        ELSE IF selfCollision(snake, newHead) THEN endGame
        ELSE
          LET newSnake       == <<newHead>> \o snake
              eatenFoodIndex == findIndex(food, newHead)
          IN
            IF eatenFoodIndex # -1
            THEN
              LET eatenFood == food[eatenFoodIndex + 1]
                  newScore  == score + pointsGained(eatenFood)
              IN  /\ \E generated \in generateFood(newSnake) :
                         food' = [food EXCEPT ![eatenFoodIndex + 1] = generated]
                  /\ snake' = newSnake
                  /\ score' = newScore
                  /\ level' = levelOf(newScore)
                  /\ UNCHANGED <<gameState, gameMode, powerUps, activePowerUps,
                                 direction, lives, highScore, uiVars, persistVars>>
            ELSE  /\ snake' = pop(newSnake)
                  /\ UNCHANGED <<gameState, gameMode, food, powerUps, activePowerUps,
                                 direction, score, level, lives, highScore, uiVars,
                                 persistVars>>

----------------------------------------------------------------------------
(* Settings, panels and leaderboard *)

updateSettings(newSettings) ==
    LET updatedSettings == merge(settings, newSettings)
    IN  /\ localStorage' = setItem(localStorage, "settings", stringify(updatedSettings))
        /\ settings' = updatedSettings
        /\ UNCHANGED <<engineVars, highScore, uiVars, leaderboard>>

\* toggleSettings that pauses a running game when it opens the panel
toggleSettingsPauses ==
    /\ showSettings' = ~showSettings
    /\ gameState' = IF gameState = "playing" /\ ~showSettings
                    THEN "paused" ELSE gameState
    /\ UNCHANGED <<gameMode, snake, food, powerUps, activePowerUps, direction,
                   score, level, lives, highScore, showLeaderboard, persistVars>>

toggleSettings ==
    /\ showSettings' = ~showSettings
    /\ UNCHANGED <<engineVars, highScore, showLeaderboard, persistVars>>

toggleLeaderboard ==
    /\ showLeaderboard' = ~showLeaderboard
    /\ UNCHANGED <<engineVars, highScore, showSettings, persistVars>>

\* where a stable sort by descending score puts e in an already sorted list:
\* behind every entry that scores at least as much
RECURSIVE insertSorted(_, _)
insertSorted(sorted, e) ==
    IF sorted = <<>> THEN <<e>>
    ELSE IF Head(sorted).score >= e.score
         THEN <<Head(sorted)>> \o insertSorted(Tail(sorted), e)
         ELSE <<e>> \o sorted

\* no sort at all
sortByScoreNone(entries) == entries

\* entries.sort((a, b) => b.score - a.score), a stable sort
RECURSIVE sortByScore(_)
sortByScore(entries) ==
    IF entries = <<>> THEN <<>>
    ELSE insertSorted(sortByScore(SubSeq(entries, 1, Len(entries) - 1)),
                      entries[Len(entries)])

\* Array.prototype.slice(0, n)
slice(entries, n) == SubSeq(entries, 1, IF Len(entries) < n THEN Len(entries) ELSE n)

addToLeaderboard(entry, now) ==
    LET newEntry           == [score |-> entry.score, playerName |-> entry.playerName,
                               id |-> toString(now)]
        updatedLeaderboard == slice(sortByScore(Append(leaderboard, newEntry)), TopN)
        newHighScore       == max(highScore, entry.score)
    IN  /\ localStorage' =
              setItem(setItem(localStorage, "leaderboard", stringify(updatedLeaderboard)),
                      "highscore", toString(newHighScore))
        /\ leaderboard' = updatedLeaderboard
        /\ highScore' = newHighScore
        /\ UNCHANGED <<engineVars, uiVars, settings>>

----------------------------------------------------------------------------
(* The game loop of SnakeGame.tsx: the milliseconds that must pass between two
   calls of updateGame.  The file holds two definitions of the component. *)

\* const gameSpeed = Math.max(100, 400 - settings.gameSpeed * 30)
gameLoopInterval(gameSpeed) == max(100, 400 - gameSpeed * 30)

\* baseSpeed 400, speedIncrease Math.floor(score / 50) * 20,
\* gameSpeed Math.max(150, baseSpeed - settings.gameSpeed * 30 - speedIncrease)
gameLoopIntervalByScore(gameSpeed, currentScore) ==
    LET baseSpeed     == 400
        speedIncrease == (currentScore \div 50) * 20
    IN  max(150, baseSpeed - gameSpeed * 30 - speedIncrease)

----------------------------------------------------------------------------
(* The keyboard and the buttons: handleKeyPress of SnakeGame.tsx (both
   definitions of the component handle these keys alike), the start screen and
   the game-over overlays *)

\* event.key.toLowerCase() of the keys the handler tells apart; w, s, a and d
\* share the cases of the arrows
Keys == {"escape", "h", "arrowup", "arrowdown", "arrowleft", "arrowright", " "}

\* the switch on the key: the direction handed to moveSnake
newDirectionOf(key, currentDirection) ==
    CASE key = "arrowup"    -> IF currentDirection # "down"  THEN "up"    ELSE currentDirection
      [] key = "arrowdown"  -> IF currentDirection # "up"    THEN "down"  ELSE currentDirection
      [] key = "arrowleft"  -> IF currentDirection # "right" THEN "left"  ELSE currentDirection
      [] key = "arrowright" -> IF currentDirection # "left"  THEN "right" ELSE currentDirection
      [] OTHER              -> currentDirection

handleKeyPress(key) ==
    IF key = "escape"
    THEN IF gameState = "playing" THEN pauseGame
         ELSE IF gameState = "paused" THEN pauseGame
         ELSE IF showSettings \/ showLeaderboard
              THEN \* toggleSettings(); toggleLeaderboard();
                   /\ showSettings' = ~showSettings
                   /\ showLeaderboard' = ~showLeaderboard
                   /\ UNCHANGED <<engineVars, highScore, persistVars>>
              ELSE UNCHANGED vars
    ELSE IF key = "h"
    THEN IF gameState = "menu" THEN UNCHANGED vars ELSE resetGame
    ELSE IF gameState # "playing" THEN UNCHANGED vars
    ELSE IF key = " " THEN pauseGame
    ELSE LET newDirection == newDirectionOf(key, direction)
         IN  IF newDirection # direction THEN moveSnake(newDirection)
             ELSE UNCHANGED vars

\* the three buttons of the start screen, which is rendered in state menu
startScreenButton(mode) == gameState = "menu" /\ startGame(mode)

\* RESTART MISSION of the game-over overlay of SnakeGame.tsx
restartMission == gameState = "gameOver" /\ startGame("classic")

\* Play Again of the game-over overlay of GameHUD.tsx: onClick={resetGame}
playAgain == gameState = "gameOver" /\ resetGame

----------------------------------------------------------------------------
(* Inputs *)

\* the mode games are started in (the RESTART MISSION button and the first
\* button of the start screen)
StartModes == {"classic"}

\* the partial settings updateSettings is called with
SettingsUpdates == {[gameSpeed |-> 8]}

\* the entries addToLeaderboard is called with, and the values of Date.now()
Entries == [score : {5}, playerName : {"ann"}]

Times == {1}

\* the directions moveSnake is called with in the specification of the whole store
StoreDirections == {"up", "left"}

----------------------------------------------------------------------------
(* The engine: the actions the game loop, the keyboard and the menus call *)

Tick == updateGame /\ score' <= MaxScore

Next ==
    \/ \E mode \in StartModes : startGame(mode)
    \/ pauseGame
    \/ resetGame
    \/ \E d \in Directions : moveSnake(d)
    \/ Tick

Spec == Init /\ [][Next]_vars

(* The whole store *)

StoreNext ==
    \/ \E mode \in StartModes : startGame(mode)
    \/ pauseGame
    \/ resetGame
    \/ \E d \in StoreDirections : moveSnake(d)
    \/ updateGame /\ score' <= StoreMaxScore
    \/ \E newSettings \in SettingsUpdates : updateSettings(newSettings)
    \/ toggleSettings
    \/ toggleLeaderboard
    \/ \E entry \in Entries, now \in Times :
           Len(leaderboard) < MaxEntries /\ addToLeaderboard(entry, now)

StoreSpec == Init /\ [][StoreNext]_vars

(* The leaderboard: a store created over a leaderboard that an earlier session
   left in localStorage, in any order and of any length up to MaxStored *)

\* the entries addToLeaderboard is called with here
BoardEntries == [score : {5, 10}, playerName : {"ann"}]

StoredEntries == [score : {5, 10}, playerName : {"bob"}, id : {toString(0)}]

RECURSIVE SeqsUpTo(_, _)
SeqsUpTo(S, n) ==
    IF n = 0 THEN {<<>>}
    ELSE LET shorter == SeqsUpTo(S, n - 1)
         IN  shorter \cup {Append(q, e) : q \in {r \in shorter : Len(r) = n - 1}, e \in S}

StoredLeaderboards == SeqsUpTo(StoredEntries, MaxStored)

LeaderboardInit ==
    /\ \E stored \in StoredLeaderboards :
           localStorage = [highscore |-> Null, leaderboard |-> {stringify(stored)},
                           settings |-> Null]
    /\ gameState = "menu"
    /\ gameMode = "classic"
    /\ snake = <<Position(GRID_SIZE \div 2, GRID_SIZE \div 2)>>
    /\ food = initialFood
    /\ powerUps = <<>>
    /\ activePowerUps = <<>>
    /\ direction = "right"
    /\ score = 0
    /\ level = 1
    /\ lives = InitialLives
    /\ highScore = parseInt(getItemOr("highscore", <<"0">>))
    /\ showSettings = FALSE
    /\ showLeaderboard = FALSE
    /\ leaderboard = parse(getItemOr("leaderboard", stringify(<<>>)))
    /\ settings = merge(defaultSettings, parse(getItemOr("settings", stringify(<<>>))))

LeaderboardNext ==
    \/ \E entry \in BoardEntries, now \in Times : addToLeaderboard(entry, now)
    \/ toggleLeaderboard

LeaderboardSpec == LeaderboardInit /\ [][LeaderboardNext]_vars

(* One game played from the menu until it ends, long enough for the snake to
   fill the grid and for the score to reach the second level *)

OneGameNext ==
    \/ \E mode \in StartModes : gameState = "menu" /\ startGame(mode)
    \/ \E d \in Directions : moveSnake(d)
    \/ updateGame /\ score' <= LongMaxScore

OneGameSpec == Init /\ [][OneGameNext]_vars

(* One game played from the menu until it ends or the score reaches ShortMaxScore,
   with a snake of up to six segments *)

ShortGameNext ==
    \/ \E mode \in StartModes : gameState = "menu" /\ startGame(mode)
    \/ \E d \in Directions : moveSnake(d)
    \/ updateGame /\ score' <= ShortMaxScore

ShortGameSpec == Init /\ [][ShortGameNext]_vars

(* The three game modes of the start screen, which is shown in state menu *)

ModeNext ==
    \/ \E mode \in GameModes : gameState = "menu" /\ startGame(mode)
    \/ pauseGame
    \/ \E d \in Directions : moveSnake(d)
    \/ updateGame /\ score' <= ModeMaxScore

ModeSpec == Init /\ [][ModeNext]_vars

(* The store driven through the keyboard and the buttons *)

UiNext ==
    \/ \E key \in Keys : handleKeyPress(key)
    \/ \E mode \in GameModes : startScreenButton(mode)
    \/ restartMission
    \/ playAgain
    \/ toggleSettings
    \/ toggleLeaderboard
    \/ updateGame /\ score' <= UiMaxScore

UiSpec == Init /\ [][UiNext]_vars

(* generateFood on long snakes: a game met with the snake laid along the rows of
   the grid, back and forth, at every length up to the full grid *)

\* the k-th cell of the path that runs along row 0 to the right, row 1 to the
\* left, and so on
SerpentineCell(k) ==
    LET row == (k - 1) \div GRID_SIZE
        col == (k - 1) % GRID_SIZE
    IN  Position(IF row % 2 = 0 THEN col ELSE GRID_SIZE - 1 - col, row)

\* the snake of n segments on the first n cells of that path, head first
SerpentineSnake(n) == [i \in 1 .. n |-> SerpentineCell(n + 1 - i)]

FoodInit ==
    /\ localStorage = [highscore |-> Null, leaderboard |-> Null, settings |-> Null]
    /\ gameState = "playing"
    /\ gameMode = "classic"
    /\ \E n \in 1 .. (GRID_SIZE * GRID_SIZE) :
           /\ snake = SerpentineSnake(n)
           /\ score = NormalPoints * (n - 1)
           /\ level = levelOf(NormalPoints * (n - 1))
    /\ \E p \in Cells, t \in FoodTypes : food = <<[x |-> p.x, z |-> p.z, type |-> t]>>
    /\ powerUps = <<>>
    /\ activePowerUps = <<>>
    /\ direction \in Directions
    /\ lives = OtherLives
    /\ highScore = parseInt(getItemOr("highscore", <<"0">>))
    /\ showSettings = FALSE
    /\ showLeaderboard = FALSE
    /\ leaderboard = parse(getItemOr("leaderboard", stringify(<<>>)))
    /\ settings = merge(defaultSettings, parse(getItemOr("settings", stringify(<<>>))))

FoodNext ==
    \/ \E mode \in StartModes : startGame(mode)
    \/ resetGame
    \/ updateGame

FoodSpec == FoodInit /\ [][FoodNext]_vars

----------------------------------------------------------------------------
(* Shorthands of the properties, spelled out from the claims *)

\* the cell one step from cell c in direction d
StepFrom(c, d) ==
    IF d = "up" THEN [x |-> c.x, z |-> c.z - 1]
    ELSE IF d = "down" THEN [x |-> c.x, z |-> c.z + 1]
    ELSE IF d = "left" THEN [x |-> c.x - 1, z |-> c.z]
    ELSE [x |-> c.x + 1, z |-> c.z]

OppositeOf(d) ==
    IF d = "up" THEN "down" ELSE IF d = "down" THEN "up"
    ELSE IF d = "left" THEN "right" ELSE "left"

InGrid(c) == c.x >= 0 /\ c.x < GRID_SIZE /\ c.z >= 0 /\ c.z < GRID_SIZE

SnakeCells == {[x |-> snake[i].x, z |-> snake[i].z] : i \in 1 .. Len(snake)}

FoodCells == {[x |-> food[i].x, z |-> food[i].z] : i \in 1 .. Len(food)}

\* the cell the next tick moves the head to
NextHead == StepFrom(snake[1], direction)

\* the next tick collides
Collides == ~InGrid(NextHead) \/ NextHead \in SnakeCells

\* a tick taken in state playing
PlayingTick == gameState = "playing" /\ updateGame

\* a tick taken in state playing that does not end the game
MovingTick == gameState = "playing" /\ gameState' = "playing" /\ updateGame

\* a tick taken in state playing that ends the game
EndingTick == gameState = "playing" /\ gameState' = "gameOver" /\ updateGame

\* The step properties below are written as  Q \/ ~P  for  P => Q : the steps
\* that satisfy Q are settled without matching them against the action in P.

----------------------------------------------------------------------------
\* C1 (as stated): in every reachable state and for every direction d,
\* moveSnake(d) with d the exact opposite of the stored direction leaves the
\* stored direction unchanged, whatever the length of the snake.
C1_ReversalNeverChangesDirection ==
    [][\/ direction' = direction
       \/ \A d \in Directions : ~(d = OppositeOf(direction) /\ moveSnake(d))]_vars

\* C1 (amended): moveSnake(d) with d the exact opposite of the stored direction
\* leaves the stored direction unchanged when the snake has two or more segments
\* or the game is not in state playing.
C1_ReversalRejectedForLongSnake ==
    [][\/ direction' = direction
       \/ \A d \in Directions :
              ~(/\ d = OppositeOf(direction)
                /\ Len(snake) >= 2 \/ gameState # "playing"
                /\ moveSnake(d))]_vars

\* a game in play with a snake of two segments or more, where moveSnake rejects
\* the reversal
C1_Witness == gameState = "playing" /\ Len(snake) >= 2

\* C2: for a snake of two or more segments in state playing, whatever moveSnake
\* calls came before it, a tick never moves the head onto the segment directly
\* behind the head.
C2_TickNeverEntersNeck ==
    [][\/ Len(snake) < 2
       \/ NextHead # [x |-> snake[2].x, z |-> snake[2].z]
       \/ ~PlayingTick]_vars

\* C3: a tick in state playing whose new head cell is outside the grid or on a
\* cell of the snake makes the state gameOver, and a tick in state gameOver
\* changes nothing.
C3_CollisionEndsGame ==
    [][/\ gameState' = "gameOver" \/ ~(Collides /\ PlayingTick)
       /\ UNCHANGED vars \/ ~(gameState = "gameOver" /\ updateGame)]_vars

\* a game ended by the head running into the snake's own body
C3_Witness == gameState = "gameOver" /\ InGrid(NextHead) /\ NextHead \in SnakeCells

\* C4: a tick in state playing that does not end the game keeps the length of
\* the snake when the new head is not on a food cell and adds exactly 1 when it
\* is; no tick shortens the snake.
C4_LengthChangesOnlyByEating ==
    [][/\ \/ Len(snake') = Len(snake) + (IF NextHead \in FoodCells THEN 1 ELSE 0)
          \/ ~MovingTick
       /\ Len(snake') >= Len(snake) \/ ~updateGame]_vars

\* a snake that has grown twice and then moved off its start cell
C4_Witness ==
    /\ gameState = "playing"
    /\ Len(snake) = 3
    /\ initialSnake[1] \notin SnakeCells

\* C5: after a tick in state playing that does not end the game the new head is
\* the previous head moved by exactly one cell along the axis of the stored
\* direction (up: z-1, down: z+1, left: x-1, right: x+1).
C5_HeadMovesOneCell ==
    [][\/ /\ direction = "up"    => snake'[1] = [x |-> snake[1].x, z |-> snake[1].z - 1]
          /\ direction = "down"  => snake'[1] = [x |-> snake[1].x, z |-> snake[1].z + 1]
          /\ direction = "left"  => snake'[1] = [x |-> snake[1].x - 1, z |-> snake[1].z]
          /\ direction = "right" => snake'[1] = [x |-> snake[1].x + 1, z |-> snake[1].z]
       \/ ~MovingTick]_vars

\* the head has been moved up and to the left of the start cell
C5_Witness ==
    /\ gameState = "playing"
    /\ snake[1].x < initialSnake[1].x
    /\ snake[1].z < initialSnake[1].z

\* C6: over any sequence of store operations highScore never decreases.
C6_HighScoreNeverDecreases == [][highScore' >= highScore]_vars

\* a game that ended below the high score, with an entry on the leaderboard
C6_Witness == gameState = "gameOver" /\ highScore > score /\ leaderboard # <<>>

\* C7: food is only ever on a free cell: no food item is on a cell of the snake.
C7_FoodOnFreeCell == FoodCells \cap SnakeCells = {}

\* C8: a non-colliding tick that puts the new head on a food cell adds 10
\* (normal) or 20 (power) to the score, replaces the eaten item, in its slot,
\* by a food item on another cell than the one eaten, and keeps the tail.
C8_EatingReplacesFoodElsewhere ==
    [][(gameState = "playing" /\ ~Collides /\ NextHead \in FoodCells /\ updateGame) =>
          LET eaten == CHOOSE i \in 1 .. Len(food) :
                          /\ [x |-> food[i].x, z |-> food[i].z] = NextHead
                          /\ \A j \in 1 .. (i - 1) :
                                 [x |-> food[j].x, z |-> food[j].z] # NextHead
          IN  /\ score' = score + (IF food[eaten].type = "power" THEN 20 ELSE 10)
              /\ Len(food') = Len(food)
              /\ \A j \in 1 .. Len(food) : j # eaten => food'[j] = food[j]
              /\ [x |-> food'[eaten].x, z |-> food'[eaten].z] # NextHead
              /\ snake' = <<NextHead>> \o snake]_vars

\* C9: a tick that ends the game leaves highScore = max(previous highScore,
\* score), so in every gameOver state highScore >= score.
C9_GameOverRecordsHighScore ==
    /\ [][\/ highScore' = (IF score > highScore THEN score ELSE highScore)
          \/ ~EndingTick]_vars
    /\ [](gameState = "gameOver" => highScore >= score)

\* a game that ended with a new high score
C9_Witness == gameState = "gameOver" /\ score > 0 /\ highScore = score

\* C10: gameOver is entered only from playing, by a colliding tick; paused only
\* from playing, by pauseGame; playing only by startGame or by pauseGame from
\* paused; menu only by resetGame.  pauseGame in menu or gameOver changes
\* nothing, and moveSnake and non-colliding ticks never change gameState.
C10_GameStateTransitions ==
    [][/\ (gameState # "gameOver" /\ gameState' = "gameOver") =>
              (gameState = "playing" /\ Collides /\ updateGame)
       /\ (gameState # "paused" /\ gameState' = "paused") =>
              (gameState = "playing" /\ pauseGame)
       /\ (gameState # "playing" /\ gameState' = "playing") =>
              \/ \E mode \in GameModes : startGame(mode)
              \/ gameState = "paused" /\ pauseGame
       /\ (gameState # "menu" /\ gameState' = "menu") => resetGame
       /\ (gameState \in {"menu", "gameOver"} /\ pauseGame) => UNCHANGED vars
       /\ (gameState' # gameState) =>
              /\ \A d \in Directions : ~moveSnake(d)
              /\ ~(gameState = "playing" /\ ~Collides /\ updateGame)]_vars

\* a game paused through pauseGame, after a tick
C10_Witness == gameState = "paused" /\ snake # initialSnake

\* C11: in every reachable state every snake segment and every food item has
\* integer coordinates x and z with 0 <= x < GRID_SIZE and 0 <= z < GRID_SIZE;
\* the head is inside the grid in the gameOver state a wall collision leaves too.
C11_AllCellsInGrid ==
    /\ \A i \in 1 .. Len(snake) :
           /\ snake[i].x \in Int /\ snake[i].z \in Int
           /\ 0 <= snake[i].x /\ snake[i].x < GRID_SIZE
           /\ 0 <= snake[i].z /\ snake[i].z < GRID_SIZE
    /\ \A i \in 1 .. Len(food) :
           /\ food[i].x \in Int /\ food[i].z \in Int
           /\ 0 <= food[i].x /\ food[i].x < GRID_SIZE
           /\ 0 <= food[i].z /\ food[i].z < GRID_SIZE

\* a game ended by the head running into the left or the upper wall
C11_Witness ==
    /\ gameState = "gameOver"
    /\ NextHead.x < 0 \/ NextHead.z < 0

\* C12: after every addToLeaderboard call, from any stored leaderboard, the
\* leaderboard has at most 10 entries, is sorted by score in non-increasing
\* order and holds the 10 highest-scoring entries of the previous leaderboard
\* plus the new entry; the new entry is dropped only if 10 retained entries
\* score at least as much.
C12_LeaderboardTopTen ==
    [][\A entry \in BoardEntries, now \in Times :
           addToLeaderboard(entry, now) =>
               LET added    == [score |-> entry.score, playerName |-> entry.playerName,
                                id |-> toString(now)]
                   all      == Append(leaderboard, added)
                   Count(q, e) == Cardinality({i \in 1 .. Len(q) : q[i] = e})
                   Range(q) == {q[i] : i \in 1 .. Len(q)}
                   Dropped(e) == Count(leaderboard', e) < Count(all, e)
               IN  /\ Len(leaderboard') <= 10
                   /\ Len(leaderboard') = (IF Len(all) < 10 THEN Len(all) ELSE 10)
                   /\ \A i \in 1 .. (Len(leaderboard') - 1) :
                          leaderboard'[i].score >= leaderboard'[i + 1].score
                   /\ \A e \in Range(leaderboard') : Count(leaderboard', e) <= Count(all, e)
                   /\ \A e \in Range(all) :
                          Dropped(e) => \A i \in 1 .. Len(leaderboard') :
                                            leaderboard'[i].score >= e.score
                   /\ Dropped(added) =>
                          /\ Len(leaderboard') = 10
                          /\ \A i \in 1 .. 10 : leaderboard'[i].score >= added.score]_vars

\* a full leaderboard that kept a new entry and dropped a stored one
C12_Witness ==
    /\ Len(leaderboard) = 10
    /\ \E i \in 1 .. 10 : leaderboard[i].playerName = "ann"
    /\ leaderboard[10].playerName = "bob"
    /\ leaderboard[10].score = 5

\* C13: an ignored move has no effect: moveSnake called in a state other than
\* playing (menu, paused, gameOver), or with the opposite of the stored
\* direction on a snake of two or more segments, leaves every variable of the
\* store unchanged and enters no other state.
C13_IgnoredMoveChangesNothing ==
    [][\/ UNCHANGED vars
       \/ \A d \in Directions :
              ~(/\ \/ gameState # "playing"
                   \/ d = OppositeOf(direction) /\ Len(snake) >= 2
                /\ moveSnake(d))]_vars

\* a paused game whose snake has grown and turned: every move is ignored here
C13_Witness == gameState = "paused" /\ Len(snake) >= 2 /\ direction # "right"

\* C14: a tick in state playing has exactly one of three outcomes, decided in
\* that one step: a plain move (state stays playing, length unchanged), a growth
\* (state stays playing, length + 1, score increased) or the end of the game;
\* when the game ends only gameState and highScore change: snake, food, score,
\* level, direction, lives and gameMode are as before the tick.
C14_TickHasOneOfThreeOutcomes ==
    [][\/ gameState # "playing"
       \/ LET plainMove == gameState' = "playing" /\ Len(snake') = Len(snake)
              growth    == /\ gameState' = "playing"
                           /\ Len(snake') = Len(snake) + 1
                           /\ score' > score
              gameEnd   == gameState' = "gameOver"
          IN  /\ \/ plainMove /\ ~growth /\ ~gameEnd
                 \/ growth /\ ~plainMove /\ ~gameEnd
                 \/ gameEnd /\ ~plainMove /\ ~growth
              /\ gameEnd =>
                     UNCHANGED <<snake, food, score, level, direction, lives, gameMode,
                                 powerUps, activePowerUps, showSettings, showLeaderboard,
                                 leaderboard, settings>>
       \/ ~updateGame]_vars

\* a game that ended with the snake grown to three segments, all still stored
C14_Witness ==
    /\ gameState = "gameOver"
    /\ Len(snake) = 3
    /\ score >= 20
    /\ direction # "right"

\* C15: the body follows the head by shifting: after a tick in state playing
\* that does not end the game, segment i + 1 of the new snake is segment i of
\* the old snake for every index that remains; so in every reachable state any
\* two consecutive segments are orthogonally adjacent cells (Manhattan
\* distance exactly 1).
C15_BodyFollowsHead ==
    /\ [][\/ \A i \in 1 .. Len(snake) : i + 1 <= Len(snake') => snake'[i + 1] = snake[i]
          \/ ~MovingTick]_vars
    /\ [](\A i \in 1 .. (Len(snake) - 1) :
              LET dx == snake[i].x - snake[i + 1].x
                  dz == snake[i].z - snake[i + 1].z
              IN  (IF dx < 0 THEN 0 - dx ELSE dx) + (IF dz < 0 THEN 0 - dz ELSE dz) = 1)

\* a snake of three segments with a bend, away from the start cell
C15_Witness ==
    /\ gameState = "playing"
    /\ Len(snake) = 3
    /\ snake[1].x # snake[3].x /\ snake[1].z # snake[3].z
    /\ initialSnake[1] \notin SnakeCells

C17_PersistedCopyMatches ==
    /\ \/ localStorage.highscore = {} /\ highScore = 0
       \/ localStorage.highscore = {toString(highScore)}
    /\ parseInt(getItemOr("highscore", <<"0">>)) = highScore
    /\ \/ localStorage.leaderboard = {} /\ leaderboard = <<>>
       \/ localStorage.leaderboard = {stringify(leaderboard)}
    /\ \/ localStorage.settings = {}
       \/ localStorage.settings = {stringify(settings)}

\* all three keys written: a game ended with a new high score, an entry on the
\* leaderboard and the settings updated
C17_Witness ==
    /\ gameState = "gameOver"
    /\ highScore = score /\ score > 5
    /\ leaderboard # <<>>
    /\ localStorage.settings # {}
    /\ settings.gameSpeed # DefaultGameSpeed

\* C18: movement is fixed-tick-rate: for a given gameSpeed setting the interval
\* the game loop computes between two ticks is the same throughout a game; it
\* does not depend on the score, the level or the length of the snake.  Stated
\* for both definitions of the game loop, over every tick of a game.
C18_FixedTickRate ==
    [][\/ /\ gameLoopInterval(settings'.gameSpeed) = gameLoopInterval(settings.gameSpeed)
          /\ gameLoopIntervalByScore(settings'.gameSpeed, score') =
                 gameLoopIntervalByScore(settings.gameSpeed, score)
       \/ ~PlayingTick]_vars

\* C19: the self-collision test is made against every segment of the snake as
\* it is before the move, the tail included: a tick in state playing whose new
\* head cell is the cell of the tail, which a plain move would vacate in the
\* same tick, ends the game, for every snake of four or more segments.
C19_TailCellCollides ==
    [][\/ gameState' = "gameOver"
       \/ ~(/\ Len(snake) >= 4
             /\ NextHead = [x |-> snake[Len(snake)].x, z |-> snake[Len(snake)].z]
             /\ PlayingTick)]_vars

\* a game ended by the head of a four-segment snake turning onto its tail cell
C19_Witness ==
    /\ gameState = "gameOver"
    /\ Len(snake) >= 4
    /\ NextHead = [x |-> snake[Len(snake)].x, z |-> snake[Len(snake)].z]

\* C20: in every reachable state level = floor(score / 100) + 1 and score is a
\* non-negative multiple of 10; within one game, that is over every step other
\* than startGame and resetGame, neither score nor level decreases.
C20_LevelFollowsScore ==
    /\ [](/\ level = (score \div 100) + 1
          /\ score >= 0
          /\ score % 10 = 0)
    /\ [][\/ score' >= score /\ level' >= level
          \/ \E mode \in GameModes : startGame(mode)
          \/ resetGame]_vars

\* a game that has reached the second level
C20_Witness == gameState = "playing" /\ level = 2 /\ score = 100

\* C21: pausing freezes and preserves the game: in state paused no updateGame
\* and no moveSnake call changes anything, pauseGame from playing changes
\* gameState to paused and nothing else, and pauseGame from paused changes
\* gameState to playing and nothing else, so that the two calls in a row give
\* back the state before the first (same snake, food, direction, score, level,
\* lives).
C21_PauseFreezesAndPreserves ==
    [][LET rest == <<gameMode, snake, food, powerUps, activePowerUps, direction, score,
                     level, lives, highScore, showSettings, showLeaderboard,
                     leaderboard, settings, localStorage>>
       IN  /\ \/ UNCHANGED vars
              \/ gameState # "paused"
              \/ ~updateGame /\ \A d \in Directions : ~moveSnake(d)
           /\ \/ gameState \notin {"playing", "paused"}
              \/ /\ gameState' = (IF gameState = "playing" THEN "paused" ELSE "playing")
                 /\ UNCHANGED rest
              \/ ~pauseGame]_vars

\* a game paused with a grown snake heading down, as it was when pauseGame was
\* called
C21_Witness ==
    /\ gameState = "paused"
    /\ Len(snake) = 2
    /\ direction = "down"
    /\ gameMode = "survival"

\* C22: Escape acts as Back for the panels: when the Escape key is handled in a
\* state other than playing and paused with the settings panel or the
\* leaderboard panel shown, both showSettings and showLeaderboard are false
\* afterwards; and no Escape press ever opens a panel.
C22_EscapeClosesPanels ==
    [][\/ /\ (gameState \notin {"playing", "paused"} /\ (showSettings \/ showLeaderboard))
                 => (~showSettings' /\ ~showLeaderboard')
          /\ showSettings' => showSettings
          /\ showLeaderboard' => showLeaderboard
       \/ ~handleKeyPress("escape")]_vars

\* C23: activating Play Again on the game-over overlay of the HUD begins a new
\* game: the state after it has gameState playing, a one-segment snake on the
\* start cell, direction right and score 0.
C23_PlayAgainStartsGame ==
    [][\/ /\ gameState' = "playing"
          /\ snake' = <<[x |-> GRID_SIZE \div 2, z |-> GRID_SIZE \div 2]>>
          /\ direction' = "right"
          /\ score' = 0
       \/ ~playAgain]_vars

\* the cells between the head and the wall the snake is heading for
CellsAhead ==
    IF direction = "up" THEN snake[1].z
    ELSE IF direction = "down" THEN GRID_SIZE - 1 - snake[1].z
    ELSE IF direction = "left" THEN snake[1].x
    ELSE GRID_SIZE - 1 - snake[1].x

\* C24: a game left alone ends: from any reachable playing state, with ticks
\* only, gameState is gameOver after at most GRID_SIZE updateGame calls.  In a
\* playing state at most GRID_SIZE - 1 cells lie ahead of the head; a tick in
\* state playing ends the game or keeps the direction and leaves one cell less
\* ahead, and with no cell ahead it ends the game.
C24_LeftAloneGameEnds ==
    /\ [](gameState = "playing" => (CellsAhead >= 0 /\ CellsAhead <= GRID_SIZE - 1))
    /\ [][\/ gameState' = "gameOver"
          \/ /\ CellsAhead > 0
             /\ gameState' = "playing"
             /\ direction' = direction
             /\ CellsAhead' = CellsAhead - 1
          \/ ~PlayingTick]_vars

\* a game of a grown snake that ran down into the wall
C24_Witness ==
    /\ gameState = "gameOver"
    /\ CellsAhead = 0
    /\ direction = "down"
    /\ Len(snake) >= 3

\* the loop of generateFood(initialSnake), the call of startGame and resetGame,
\* after 100 iterations
LoopOfInitialSnake == loopAfter(initialSnake, 100)

\* C25: generateFood always terminates: for every snake, one that occupies
\* every cell of the grid included, no run of its loop is still drawing after
\* 100 draws and some position is returned; the positions returned are those
\* startGame, resetGame and a food-eating updateGame place the food on, and
\* these three always complete.
C25_GenerateFoodTerminates ==
    LET grown    == <<NextHead>> \o snake
        ofSnake  == loopAfter(snake, 100)
        ofGrown  == loopAfter(grown, 100)
    IN  /\ ~ofSnake.running
        /\ ofSnake.returned # {}
        /\ ofSnake.returned = generateFoodCells(snake)
        /\ ~LoopOfInitialSnake.running
        /\ LoopOfInitialSnake.returned = generateFoodCells(initialSnake)
        /\ \A mode \in GameModes : ENABLED startGame(mode)
        /\ ENABLED resetGame
        /\ (gameState = "playing" /\ ~Collides /\ NextHead \in FoodCells) =>
               /\ ~ofGrown.running
               /\ ofGrown.returned = generateFoodCells(grown)
               /\ ENABLED updateGame

\* the snake fills the grid after eating a power food item, and the food
\* generateFood returned on its 100th draw lies on the snake
C25_Witness ==
    /\ gameState = "playing"
    /\ Len(snake) = GRID_SIZE * GRID_SIZE
    /\ score = 10 * (Len(snake) - 1) + 10
    /\ FoodCells \subseteq SnakeCells

\* C26: startGame(mode), called in any of the four game states, yields the same
\* fresh game: gameState playing, gameMode = mode, the snake one segment on the
\* start cell, exactly one food item, direction right, score 0, level 1, no
\* powerUps and no activePowerUps, showSettings and showLeaderboard both false;
\* highScore, leaderboard and settings are unchanged.
C26_StartGameYieldsFreshGame ==
    [][\A mode \in GameModes :
           \/ /\ gameState' = "playing"
              /\ gameMode' = mode
              /\ snake' = <<[x |-> GRID_SIZE \div 2, z |-> GRID_SIZE \div 2]>>
              /\ Len(food') = 1
              /\ direction' = "right"
              /\ score' = 0
              /\ level' = 1
              /\ powerUps' = <<>>
              /\ activePowerUps' = <<>>
              /\ ~showSettings'
              /\ ~showLeaderboard'
              /\ UNCHANGED <<highScore, leaderboard, settings>>
           \/ ~startGame(mode)]_vars

\* a fresh game started over an earlier one: the high score of the earlier game
\* and the updated settings are kept, the panels are closed
C26_Witness ==
    /\ gameState = "playing"
    /\ snake = initialSnake
    /\ score = 0
    /\ highScore = 10
    /\ settings.gameSpeed # DefaultGameSpeed
    /\ leaderboard # <<>>

\* C27: resetGame, called in any state, sets gameState to menu, the snake to
\* one segment on the start cell, direction to right, score to 0, level to 1
\* and lives to 3, and leaves gameMode, highScore, leaderboard, settings,
\* showSettings and showLeaderboard unchanged; in state menu no tick changes
\* anything, and only startGame leaves the menu.
C27_ResetGameReturnsToMenu ==
    [][/\ \/ /\ gameState' = "menu"
             /\ snake' = <<[x |-> GRID_SIZE \div 2, z |-> GRID_SIZE \div 2]>>
             /\ direction' = "right"
             /\ score' = 0
             /\ level' = 1
             /\ lives' = 3
             /\ UNCHANGED <<gameMode, highScore, leaderboard, settings,
                            showSettings, showLeaderboard>>
          \/ ~resetGame
       /\ \/ gameState # "menu"
          \/ UNCHANGED vars
          \/ ~updateGame
       /\ \/ gameState # "menu"
          \/ gameState' = "menu"
          \/ \E mode \in GameModes : startGame(mode)]_vars

\* back in the menu after a game: the high score and an open settings panel
\* are kept
C27_Witness ==
    /\ gameState = "menu"
    /\ highScore = 10
    /\ showSettings
    /\ score = 0

\* C28: toggleSettings and toggleLeaderboard each flip only their own flag and
\* leave gameState and every game field unchanged; while a panel is shown and
\* gameState is playing a tick is still possible, and every such tick moves
\* the snake or ends the game.
C28_PanelsDoNotPause ==
    [][/\ \/ /\ showSettings' = ~showSettings
             /\ UNCHANGED <<engineVars, highScore, showLeaderboard,
                            leaderboard, settings>>
          \/ ~toggleSettings
       /\ \/ /\ showLeaderboard' = ~showLeaderboard
             /\ UNCHANGED <<engineVars, highScore, showSettings,
                            leaderboard, settings>>
          \/ ~toggleLeaderboard
       /\ \/ gameState # "playing"
          \/ ~(showSettings \/ showLeaderboard)
          \/ /\ \/ snake' # snake
                \/ gameState' = "gameOver"
                \/ ~updateGame
             \* every state has a toggleLeaderboard step, so the tick is
             \* required to be possible in every reachable state
             /\ \/ showLeaderboard' = showLeaderboard
                \/ ENABLED updateGame]_vars

\* the settings panel is open during play and the next tick ends the game
C28_Witness ==
    /\ gameState = "playing"
    /\ showSettings
    /\ score > 0
    /\ ENABLED (updateGame /\ gameState' = "gameOver")

\* C29: in every reachable state of a game the score and the length of the
\* snake are tied together: 10 * (length - 1) <= score <= 20 * (length - 1).
C29_ScoreFollowsLength ==
    /\ 10 * (Len(snake) - 1) <= score
    /\ score <= 20 * (Len(snake) - 1)

\* a snake that has eaten a normal food and a power food: the score lies
\* strictly between the two limits
C29_Witness ==
    /\ Len(snake) = 3
    /\ score = 30

=============================================================================
